---------------------------- MODULE Spec2Model ----------------------------
(***************************************************************************)
(* Vuddy backend: the WebSocket session controller (backend/main.py), the   *)
(* conversation pipeline (backend/brain.py) and the tool router             *)
(* (backend/tools.py), modelled as an asyncio program: one controller       *)
(* coroutine per connection, turn tasks created by it, and one step of the  *)
(* model per stretch of code between two awaits.                            *)
(*                                                                         *)
(* Text is a sequence of one-character strings, so that len(), slicing,     *)
(* strip() and endswith() are computed as Python computes them.            *)
(***************************************************************************)
EXTENDS Integers, Sequences, FiniteSets, TLC

VARIABLES
    cfg,            \* the environment of this run (who connects, what the collaborators may answer)
    chat_history,   \* brain._chat_history: the module-level list shared by all connections
    conn,           \* per connection: "none" (not accepted yet), "open", "closed"
    ctl,            \* per connection: the websocket_endpoint coroutine (position, current_turn_task)
    tasks,          \* per connection: every task created by asyncio.create_task(run_turn(text))
    out,            \* per connection: the JSON messages sent to the client, in order
    led,            \* per connection: the states written to hardware.set_led_state by its code
    budget,         \* per connection: inbound messages the client may still send
    switches,       \* PUT /api/school requests still to come in this run
    content,        \* response shaping on its own: the reasoning service's content
    shaped          \* response shaping on its own: <<>> or <<the text of assistant_text>>

vars == << cfg, chat_history, conn, ctl, tasks, out, led, budget, switches, content, shaped >>

sessionVars == << cfg, chat_history, conn, ctl, tasks, out, led, budget, switches >>
shapeVars == << content, shaped >>

-----------------------------------------------------------------------------
(* Program constants *)

MAX_HISTORY == 10
MAX_RESPONSE_CHARS == 480
MAX_TOOL_CALLS_PER_TURN == 2
MAX_RETRIES == 1

TOOL_NAMES ==
    { "get_events", "get_recommendations", "get_calendar_summary",
      "add_calendar_item", "start_study_session", "stop_study_session",
      "spotify_search_link" }

(* Bounds of the model *)

MaxInbound == 2      \* inbound messages of a "barge" run
MaxCalls == 3        \* tool invocations one reasoning response may carry
MaxTail == 3         \* characters after the run of letters of a shaped content
MaxSwitches == 1     \* PUT /api/school requests of a "switch" run

Sessions == { "c1", "c2" }

\* the turns it takes for the history to pass its cap
PoliteTurns == MAX_HISTORY \div 2 + 1

\* a connection creates at most one task per inbound message
TaskIds == 1..(IF MaxInbound > PoliteTurns THEN MaxInbound ELSE PoliteTurns)

-----------------------------------------------------------------------------
(* Text *)

Min(a, b) == IF a < b THEN a ELSE b

Whitespace == { " ", "\n", "\t" }
Terminal == { ".", "!", "?" }
Ellipsis == << ".", ".", "." >>

\* s[:n]
Take(s, n) == SubSeq(s, 1, Min(n, Len(s)))

\* s.rstrip()
RECURSIVE RStrip(_)
RStrip(s) ==
    IF s # << >> /\ s[Len(s)] \in Whitespace
    THEN RStrip(SubSeq(s, 1, Len(s) - 1))
    ELSE s

\* s.lstrip()
RECURSIVE LStrip(_)
LStrip(s) ==
    IF s # << >> /\ s[1] \in Whitespace THEN LStrip(Tail(s)) ELSE s

\* s.strip()
Strip(s) == LStrip(RStrip(s))

\* s.endswith(('.', '!', '?'))
EndsWithTerminal(s) == s # << >> /\ s[Len(s)] \in Terminal

APOLOGY ==
    << "I", "'", "m", " ", "s", "o", "r", "r", "y", ",", " ", "I", " ", "c",
       "o", "u", "l", "d", "n", "'", "t", " ", "g", "e", "n", "e", "r", "a",
       "t", "e", " ", "a", " ", "r", "e", "s", "p", "o", "n", "s", "e", ".",
       " ", "C", "o", "u", "l", "d", " ", "y", "o", "u", " ", "t", "r", "y",
       " ", "a", "s", "k", "i", "n", "g", " ", "a", "g", "a", "i", "n", "?" >>

\* (ShapeAlwaysEllipsis: the ellipsis is appended to every truncated text)
ShapeAlwaysEllipsis(c) ==
    IF c = << >> THEN APOLOGY
    ELSE IF Len(c) > MAX_RESPONSE_CHARS
         THEN RStrip(Take(c, MAX_RESPONSE_CHARS)) \o Ellipsis
         ELSE c

\* brain.process_message, "Extract response text": the text of assistant_text
\* for the content of the final reasoning response.
ShapeResponse(c) ==
    IF c = << >> THEN APOLOGY
    ELSE IF Len(c) > MAX_RESPONSE_CHARS
         THEN LET cut == RStrip(Take(c, MAX_RESPONSE_CHARS))
              IN  IF EndsWithTerminal(cut) THEN cut ELSE cut \o Ellipsis
         ELSE c


-----------------------------------------------------------------------------
(* Tool router (backend/tools.py) *)

\* What one call of _run_tool inside asyncio.wait_for can do: return the
\* provider's dict, overrun the deadline, or raise.  An error text is the
\* sequence of the pieces it is formatted from.
OkResult(n) == [ok |-> TRUE, events |-> n]
ErrResult(msg) == [ok |-> FALSE, error |-> msg]

ProviderOutcomes ==
    { [kind |-> "return", result |-> OkResult(1)],
      [kind |-> "return", result |-> ErrResult(<< "not found" >>)],
      [kind |-> "timeout"],
      [kind |-> "raise", message |-> << "provider fault" >>] }

UnknownToolResult(tool_name) == ErrResult(<< "Unknown tool: ", tool_name >>)

\* (execute_tool_attempt_more: `attempt <= MAX_RETRIES`, one retry too many)
execute_tool_attempt_more(attempt, outcome) ==
    CASE outcome.kind = "return" ->
            [kind |-> "return", result |-> outcome.result]
      [] outcome.kind = "timeout" ->
            IF attempt <= MAX_RETRIES
            THEN [kind |-> "continue"]
            ELSE [kind |-> "return", result |-> ErrResult(<< "timeout" >>)]
      [] outcome.kind = "raise" ->
            IF attempt <= MAX_RETRIES
            THEN [kind |-> "continue"]
            ELSE [kind |-> "return", result |-> ErrResult(outcome.message)]

\* (execute_tool_attempt_reraise: the last fault is raised again)
execute_tool_attempt_reraise(attempt, outcome) ==
    CASE outcome.kind = "return" ->
            [kind |-> "return", result |-> outcome.result]
      [] outcome.kind = "timeout" ->
            IF attempt < MAX_RETRIES
            THEN [kind |-> "continue"]
            ELSE [kind |-> "return", result |-> ErrResult(<< "timeout" >>)]
      [] outcome.kind = "raise" ->
            IF attempt < MAX_RETRIES
            THEN [kind |-> "continue"]
            ELSE [kind |-> "raise"]

\* (execute_tool_attempt_noretry: a failed attempt is answered at once)
execute_tool_attempt_noretry(attempt, outcome) ==
    CASE outcome.kind = "return" ->
            [kind |-> "return", result |-> outcome.result]
      [] outcome.kind = "timeout" ->
            [kind |-> "return", result |-> ErrResult(<< "timeout" >>)]
      [] outcome.kind = "raise" ->
            [kind |-> "return", result |-> ErrResult(outcome.message)]

\* (execute_tool_attempt_retry_notok: a result that is not ok is retried too)
execute_tool_attempt_retry_notok(attempt, outcome) ==
    CASE outcome.kind = "return" ->
            IF ~outcome.result.ok /\ attempt < MAX_RETRIES
            THEN [kind |-> "continue"]
            ELSE [kind |-> "return", result |-> outcome.result]
      [] outcome.kind = "timeout" ->
            IF attempt < MAX_RETRIES
            THEN [kind |-> "continue"]
            ELSE [kind |-> "return", result |-> ErrResult(<< "timeout" >>)]
      [] outcome.kind = "raise" ->
            IF attempt < MAX_RETRIES
            THEN [kind |-> "continue"]
            ELSE [kind |-> "return", result |-> ErrResult(outcome.message)]

\* (execute_tool_attempt_one_error: every failure of the last attempt is
\* reported as a timeout)
execute_tool_attempt_one_error(attempt, outcome) ==
    CASE outcome.kind = "return" ->
            [kind |-> "return", result |-> outcome.result]
      [] OTHER ->
            IF attempt < MAX_RETRIES
            THEN [kind |-> "continue"]
            ELSE [kind |-> "return", result |-> ErrResult(<< "timeout" >>)]

\* execute_tool, one iteration of `for attempt in range(MAX_RETRIES + 1)`:
\* what the try/except does with the outcome of the awaited provider call.
execute_tool_attempt(attempt, outcome) ==
    CASE outcome.kind = "return" ->
            [kind |-> "return", result |-> outcome.result]
      [] outcome.kind = "timeout" ->
            IF attempt < MAX_RETRIES
            THEN [kind |-> "continue"]
            ELSE [kind |-> "return", result |-> ErrResult(<< "timeout" >>)]
      [] outcome.kind = "raise" ->
            IF attempt < MAX_RETRIES
            THEN [kind |-> "continue"]
            ELSE [kind |-> "return", result |-> ErrResult(outcome.message)]

\* range(MAX_RETRIES + 1): is there an iteration after `attempt`?
HasNextAttempt(attempt) == attempt + 1 < MAX_RETRIES + 1

\* The value brain.process_message tests with tool_result.get("ok").
IsToolResult(r) ==
    /\ "ok" \in DOMAIN r
    /\ r.ok \in BOOLEAN
    /\ ~r.ok => "error" \in DOMAIN r

\* str(count) for the counts the model uses
Str(n) == CASE n = 0 -> "0" [] n = 1 -> "1" [] n = 2 -> "2" [] OTHER -> "many"

\* (summarize_without_error: a failure is summarized without its error text)
summarize_without_error(tool_name, result) ==
    IF ~result.ok THEN << tool_name, " failed" >> ELSE << "Done" >>

\* brain._summarize_tool_result
Plural(n) == IF n # 1 THEN "s" ELSE ""
summarize_tool_result(tool_name, result) ==
    IF ~result.ok THEN << tool_name, " failed: " >> \o result.error
    ELSE CASE tool_name = "get_events" ->
                << "Found ", Str(result.events), " event", Plural(result.events) >>
           [] tool_name = "get_recommendations" ->
                << "Found ", Str(result.events), " recommendation", Plural(result.events) >>
           [] tool_name = "get_calendar_summary" ->
                << "Found ", Str(result.events), " upcoming item", Plural(result.events) >>
           [] tool_name = "add_calendar_item" -> << "Added to calendar (ID: ", "?", ")" >>
           [] tool_name = "start_study_session" -> << "Started study session until ", "?" >>
           [] tool_name = "stop_study_session" -> << "Session ended after ", "?", " minutes" >>
           [] tool_name = "spotify_search_link" -> << "Spotify link generated" >>
           [] OTHER -> << "Done" >>

-----------------------------------------------------------------------------
(* The environment: clients and collaborators *)

HI == << "h", "i" >>
OK_TEXT == << "o", "k", "." >>

\* Inbound frames a client may send; "malformed" is a frame for which
\* ws.receive_json() or data.get raises (not JSON, or not a JSON object).
InboundMessages ==
    { [type |-> "chat", text |-> HI],
      [type |-> "chat", text |-> << " " >>],
      [type |-> "transcript_final", text |-> << " " >> \o HI],
      [type |-> "start_listening"],
      [type |-> "stop_listening"],
      [type |-> "interrupt"],
      [type |-> "ping"],
      [type |-> "malformed"] }

\* Tool invocations of one reasoning response: every sequence of at most
\* MaxCalls names, one of them a name the registry does not hold.
CallNames == { "get_events", "play_music" }
RECURSIVE SeqsUpTo(_, _)
SeqsUpTo(S, n) ==
    IF n = 0 THEN { << >> }
    ELSE LET shorter == SeqsUpTo(S, n - 1)
         IN  shorter \cup { Append(q, x) : q \in shorter, x \in S }
CallSeqs == SeqsUpTo(CallNames, MaxCalls)

\* The runs explored, each a client and the answers of the collaborators.
\*   "barge": one connection, every inbound kind, no tool invocation,
\*            collaborators that may fault;
\*   "toolbarge": one connection sending text and interrupts, a reasoning
\*            service that asks for one tool;
\*   "tools": one connection sending one message, a reasoning service that
\*            asks for any of CallSeqs;
\*   "pair":  two connections open at once, one text each;
\*   "toolfault": one connection sending one message, a reasoning service
\*            that asks for one or two tools, collaborators that may fault;
\*   "polite": one connection whose client sends PoliteTurns texts, each
\*            after the turn before it has ended;
\*   "switch": one connection sending one text, and MaxSwitches requests to
\*            change the school;
\*   "registry": one connection sending one text, a reasoning service that
\*            asks for one tool of the registry.
TextAndInterrupt ==
    { m \in InboundMessages : m.type = "interrupt" \/ (m.type = "chat" /\ m.text = HI) }

Scenarios ==
    { [name |-> "barge", sessions |-> { "c1" }, inbound |-> MaxInbound,
       messages |-> InboundMessages, calls |-> { << >> },
       contents |-> { OK_TEXT }, faults |-> TRUE, polite |-> FALSE, switches |-> 0],
      [name |-> "toolbarge", sessions |-> { "c1" }, inbound |-> 2,
       messages |-> TextAndInterrupt, calls |-> { << "get_events" >> },
       contents |-> { OK_TEXT }, faults |-> FALSE, polite |-> FALSE, switches |-> 0],
      [name |-> "tools", sessions |-> { "c1" }, inbound |-> 1,
       messages |-> TextAndInterrupt, calls |-> CallSeqs,
       contents |-> { << >>, OK_TEXT }, faults |-> FALSE, polite |-> FALSE, switches |-> 0],
      [name |-> "pair", sessions |-> Sessions, inbound |-> 1,
       messages |-> { m \in TextAndInterrupt : m.type = "chat" },
       calls |-> { << >> },
       contents |-> { OK_TEXT }, faults |-> FALSE, polite |-> FALSE, switches |-> 0],
      [name |-> "toolfault", sessions |-> { "c1" }, inbound |-> 1,
       messages |-> TextAndInterrupt,
       calls |-> { << "get_events" >>, << "get_events", "play_music" >> },
       contents |-> { OK_TEXT }, faults |-> TRUE, polite |-> FALSE, switches |-> 0],
      [name |-> "polite", sessions |-> { "c1" }, inbound |-> PoliteTurns,
       messages |-> { m \in TextAndInterrupt : m.type = "chat" },
       calls |-> { << >> },
       contents |-> { OK_TEXT }, faults |-> FALSE, polite |-> TRUE, switches |-> 0],
      [name |-> "switch", sessions |-> { "c1" }, inbound |-> 1,
       messages |-> { m \in TextAndInterrupt : m.type = "chat" },
       calls |-> { << >> },
       contents |-> { OK_TEXT }, faults |-> FALSE, polite |-> FALSE,
       switches |-> MaxSwitches],
      [name |-> "registry", sessions |-> { "c1" }, inbound |-> 1,
       messages |-> { m \in TextAndInterrupt : m.type = "chat" },
       calls |-> { << n >> : n \in TOOL_NAMES },
       contents |-> { OK_TEXT }, faults |-> FALSE, polite |-> FALSE, switches |-> 0] }

-----------------------------------------------------------------------------
(* Outbound messages; `turn` records which task sent one (0: the controller) *)

StateEvent(state, turn) == [type |-> "assistant_state", state |-> state, turn |-> turn]
ToolStatusEvent(tool, status, turn) ==
    [type |-> "tool_status", tool |-> tool, status |-> status, turn |-> turn]
TextEvent(text, summaries, turn) ==
    [type |-> "assistant_text", text |-> text, tool_results |-> summaries, turn |-> turn]
AudioEvent(turn) == [type |-> "assistant_audio_ready", format |-> "mp3", turn |-> turn]
ErrorEvent(message, turn) ==
    [type |-> "error", message |-> message, recoverable |-> TRUE, turn |-> turn]

\* ws.send_json on a connection the client has left raises; brain._send_ws
\* and set_idle_state swallow that, so nothing is sent.
Sent(s, evs) == IF conn[s] = "open" THEN out[s] \o evs ELSE out[s]

-----------------------------------------------------------------------------
(* Session controller: main.websocket_endpoint *)

NoTask == 0

\* asyncio.create_task(run_turn(text)): a task that has not run yet.
\* afterCancelAt: how many messages had been sent when the cancellation that
\* preceded this spawn was requested (-1: nothing was cancelled for it).
\* ledAt: how many actuator signals had been made when the task began to
\* run (-1: it has not run).
\* outcomes: how _run_tool ended in each attempt of the invocation at idx.
\* provided: what the provider function did in each of these attempts.
\* cancelPc: the await the task was suspended in when task.cancel() was called.
\* stale: the history was reset after the task began to run.
NewTask(text, afterCancelAt) ==
    [ text |-> text, pc |-> "new", must_cancel |-> FALSE, result |-> "running",
      messages |-> << >>, requested |-> << >>, tool_calls |-> << >>, idx |-> 0,
      attempt |-> 0, tried |-> << >>, outcomes |-> << >>, provided |-> << >>,
      tool_result |-> ErrResult(<< >>),
      tool_fault |-> FALSE,
      dispatched |-> << >>, tool_results_summary |-> << >>,
      response_text |-> << >>, appended |-> FALSE,
      cancelAt |-> -1, afterCancelAt |-> afterCancelAt, ledAt |-> -1,
      cancelPc |-> "", stale |-> FALSE ]

Live(s) == { i \in DOMAIN tasks[s] : tasks[s][i].pc # "done" }

\* The statements of a handler that follow `await cancel_current_turn()`,
\* starting from the tasks tk.
Resume(s, cont, text, tk, cancelledAt) ==
    CASE cont = "spawn" ->
            /\ tasks' = [tk EXCEPT ![s] = Append(@, NewTask(text, cancelledAt))]
            /\ ctl' = [ctl EXCEPT ![s] =
                         [pc |-> "recv", cur |-> Len(tk[s]) + 1, cont |-> "", text |-> << >>]]
            /\ UNCHANGED << out, led >>
      [] cont = "idle" ->
            /\ tasks' = tk
            /\ ctl' = [ctl EXCEPT ![s] =
                         [pc |-> "recv", cur |-> NoTask, cont |-> "", text |-> << >>]]
            /\ out' = [out EXCEPT ![s] = Sent(s, << StateEvent("idle", 0) >>)]
            /\ led' = [led EXCEPT ![s] = Append(@, "idle")]
      [] cont = "close" ->
            /\ tasks' = tk
            /\ ctl' = [ctl EXCEPT ![s] =
                         [pc |-> "closed", cur |-> NoTask, cont |-> "", text |-> << >>]]
            /\ UNCHANGED << out, led >>
      [] cont = "fail" ->
            \* `except Exception as e`: the error is reported, the handler returns
            /\ tasks' = tk
            /\ ctl' = [ctl EXCEPT ![s] =
                         [pc |-> "closed", cur |-> NoTask, cont |-> "", text |-> << >>]]
            /\ out' = [out EXCEPT ![s] = Sent(s, << ErrorEvent("malformed", 0) >>)]
            /\ UNCHANGED led
      [] cont = "fail_send" ->
            \* the same handler after a send that raised: the send of the
            \* error message raises as well (and is swallowed) or goes out
            /\ tasks' = tk
            /\ ctl' = [ctl EXCEPT ![s] =
                         [pc |-> "closed", cur |-> NoTask, cont |-> "", text |-> << >>]]
            /\ \E delivered \in BOOLEAN :
                  out' = [out EXCEPT ![s] =
                            IF delivered THEN Sent(s, << ErrorEvent("send failed", 0) >>)
                            ELSE @]
            /\ UNCHANGED led

\* cancel_current_turn, then the rest of the handler (cont).
CancelNoAwait(s, cont, text) ==
    LET c == ctl[s].cur IN
    IF c # NoTask /\ tasks[s][c].pc # "done"
    THEN Resume(s, cont, text,
                [tasks EXCEPT ![s][c].must_cancel = TRUE,
                              ![s][c].cancelAt = Len(out[s]),
                              ![s][c].cancelPc = tasks[s][c].pc],
                Len(out[s]))
    ELSE Resume(s, cont, text, tasks, -1)

\* (CancelNoAwait: cancel_current_turn without `await current_turn_task`)
cancel_current_turn(s, cont, text) ==
    LET c == ctl[s].cur IN
    IF c # NoTask /\ tasks[s][c].pc # "done"
    THEN \* task.cancel(); await task
         /\ tasks' = [tasks EXCEPT ![s][c].must_cancel = TRUE,
                                   ![s][c].cancelAt = Len(out[s]),
                                   ![s][c].cancelPc = tasks[s][c].pc]
         /\ ctl' = [ctl EXCEPT ![s] =
                      [pc |-> "cancel_wait", cur |-> c, cont |-> cont, text |-> text]]
         /\ UNCHANGED << out, led >>
    ELSE Resume(s, cont, text, tasks, -1)

\* brain.clear_history(): the list is replaced by an empty one.  The tasks
\* that have begun to run are marked as older than the reset.
MarkStale(tk) ==
    [s \in Sessions |->
        [i \in DOMAIN tk[s] |->
            IF tk[s][i].ledAt >= 0 THEN [tk[s][i] EXCEPT !.stale = TRUE] ELSE tk[s][i]]]

clear_history ==
    /\ chat_history' = << >>
    /\ tasks' = MarkStale(tasks)

\* await ws.accept(); the initial idle state; brain.clear_history()
Connect(s) ==
    /\ s \in cfg.sessions
    /\ conn[s] = "none"
    /\ conn' = [conn EXCEPT ![s] = "open"]
    /\ out' = [out EXCEPT ![s] = Append(@, StateEvent("idle", 0))]
    /\ clear_history
    /\ ctl' = [ctl EXCEPT ![s].pc = "recv"]
    /\ UNCHANGED << cfg, switches, led, budget, shapeVars >>

\* PUT /api/school: school_config.set_active_school accepts the id or not;
\* the history is cleared when it does
api_set_school ==
    /\ switches > 0
    /\ switches' = switches - 1
    /\ \E ok \in BOOLEAN :
         IF ok THEN clear_history ELSE UNCHANGED << chat_history, tasks >>
    /\ UNCHANGED << cfg, conn, ctl, out, led, budget, shapeVars >>

Receiving(s) == conn[s] = "open" /\ ctl[s].pc = "recv"

Takes(s, types) ==
    { m \in cfg.messages : m.type \in types }

\* "transcript_final" / "chat"
\* (HandleTextUnstripped: the text is used as received)
HandleTextUnstripped(s, m) ==
    /\ IF m.text # << >>
       THEN cancel_current_turn(s, "spawn", m.text)
       ELSE UNCHANGED << tasks, ctl, out, led >>
    /\ budget' = [budget EXCEPT ![s] = @ - 1]
    /\ UNCHANGED << cfg, switches, chat_history, conn, shapeVars >>

\* the branch for the message m: text = data.get("text", "").strip()
HandleText(s, m) ==
    /\ LET text == Strip(m.text) IN
       IF text # << >>
       THEN cancel_current_turn(s, "spawn", text)
       ELSE UNCHANGED << tasks, ctl, out, led >>
    /\ budget' = [budget EXCEPT ![s] = @ - 1]
    /\ UNCHANGED << cfg, switches, chat_history, conn, shapeVars >>

OnText(s) ==
    /\ Receiving(s) /\ budget[s] > 0
    /\ cfg.polite => Live(s) = { }
    /\ \E m \in Takes(s, { "transcript_final", "chat" }) : HandleText(s, m)

\* (OnStartListeningCancels: listening ends the turn in flight first)
OnStartListeningCancels(s) ==
    /\ Receiving(s) /\ budget[s] > 0
    /\ \E m \in Takes(s, { "start_listening" }) :
         IF Live(s) # { }
         THEN cancel_current_turn(s, "idle", << >>)
         ELSE /\ led' = [led EXCEPT ![s] = Append(@, "listening")]
              /\ out' = [out EXCEPT ![s] = Append(@, StateEvent("listening", 0))]
              /\ UNCHANGED << ctl, tasks >>
    /\ budget' = [budget EXCEPT ![s] = @ - 1]
    /\ UNCHANGED << cfg, switches, chat_history, conn, shapeVars >>

\* "start_listening"
OnStartListening(s) ==
    /\ Receiving(s) /\ budget[s] > 0
    /\ \E m \in Takes(s, { "start_listening" }) :
         /\ led' = [led EXCEPT ![s] = Append(@, "listening")]
         /\ out' = [out EXCEPT ![s] = Append(@, StateEvent("listening", 0))]
    /\ budget' = [budget EXCEPT ![s] = @ - 1]
    /\ UNCHANGED << cfg, switches, chat_history, conn, ctl, tasks, shapeVars >>

OnStopListening(s) ==
    /\ Receiving(s) /\ budget[s] > 0
    /\ \E m \in Takes(s, { "stop_listening" }) :
         /\ led' = [led EXCEPT ![s] = Append(@, "idle")]
         /\ out' = [out EXCEPT ![s] = Append(@, StateEvent("idle", 0))]
    /\ budget' = [budget EXCEPT ![s] = @ - 1]
    /\ UNCHANGED << cfg, switches, chat_history, conn, ctl, tasks, shapeVars >>

\* (OnInterruptOnlyCancels: an interrupt that finds no turn to cancel does
\* nothing more)
OnInterruptOnlyCancels(s) ==
    /\ Receiving(s) /\ budget[s] > 0
    /\ \E m \in Takes(s, { "interrupt" }) :
         IF Live(s) = { }
         THEN /\ ctl' = [ctl EXCEPT ![s].cur = NoTask]
              /\ UNCHANGED << tasks, out, led >>
         ELSE cancel_current_turn(s, "idle", << >>)
    /\ budget' = [budget EXCEPT ![s] = @ - 1]
    /\ UNCHANGED << cfg, switches, chat_history, conn, shapeVars >>

\* "interrupt"
OnInterrupt(s) ==
    /\ Receiving(s) /\ budget[s] > 0
    /\ \E m \in Takes(s, { "interrupt" }) :
         cancel_current_turn(s, "idle", << >>)
    /\ budget' = [budget EXCEPT ![s] = @ - 1]
    /\ UNCHANGED << cfg, switches, chat_history, conn, shapeVars >>

\* a type none of the branches names: the loop goes round
OnOther(s) ==
    /\ Receiving(s) /\ budget[s] > 0
    /\ \E m \in cfg.messages :
         m.type \notin { "transcript_final", "chat", "start_listening",
                         "stop_listening", "interrupt", "malformed" }
    /\ budget' = [budget EXCEPT ![s] = @ - 1]
    /\ UNCHANGED << cfg, switches, chat_history, conn, ctl, tasks, out, led, shapeVars >>

\* (OnMalformedNoCancel: the handler reports the error and returns, the
\* turn in flight is left running)
OnMalformedNoCancel(s) ==
    /\ Receiving(s) /\ budget[s] > 0
    /\ \E m \in Takes(s, { "malformed" }) :
         /\ ctl' = [ctl EXCEPT ![s] =
                      [pc |-> "closed", cur |-> NoTask, cont |-> "", text |-> << >>]]
         /\ out' = [out EXCEPT ![s] = Sent(s, << ErrorEvent("malformed", 0) >>)]
         /\ UNCHANGED << tasks, led >>
    /\ budget' = [budget EXCEPT ![s] = @ - 1]
    /\ UNCHANGED << cfg, switches, chat_history, conn, shapeVars >>

\* ws.receive_json() or data.get raises something other than
\* WebSocketDisconnect: the handler's `except Exception`
OnMalformed(s) ==
    /\ Receiving(s) /\ budget[s] > 0
    /\ \E m \in Takes(s, { "malformed" }) :
         cancel_current_turn(s, "fail", << >>)
    /\ budget' = [budget EXCEPT ![s] = @ - 1]
    /\ UNCHANGED << cfg, switches, chat_history, conn, shapeVars >>

\* ws.receive_json() raises WebSocketDisconnect
\* "start_listening" / "stop_listening" when ws.send_json raises: the
\* actuator has been written, the send is awaited and will raise
OnListeningSendFails(s) ==
    /\ Receiving(s) /\ budget[s] > 0
    /\ cfg.faults
    /\ \E m \in Takes(s, { "start_listening", "stop_listening" }) :
         led' = [led EXCEPT ![s] =
                   Append(@, IF m.type = "start_listening" THEN "listening" ELSE "idle")]
    /\ ctl' = [ctl EXCEPT ![s].pc = "send_failed"]
    /\ budget' = [budget EXCEPT ![s] = @ - 1]
    /\ UNCHANGED << cfg, switches, chat_history, conn, tasks, out, shapeVars >>

\* the send raises: `except Exception as e` of the endpoint
AfterSendFailed(s) ==
    /\ ctl[s].pc = "send_failed"
    /\ cancel_current_turn(s, "fail_send", << >>)
    /\ UNCHANGED << cfg, switches, chat_history, conn, budget, shapeVars >>

OnDisconnect(s) ==
    /\ Receiving(s)
    /\ conn' = [conn EXCEPT ![s] = "closed"]
    /\ cancel_current_turn(s, "close", << >>)
    /\ UNCHANGED << cfg, switches, chat_history, budget, shapeVars >>

\* (AfterCancelRequest: the controller goes on once the cancellation is
\* requested; the task need not have ended)
AfterCancelRequest(s) ==
    /\ ctl[s].pc = "cancel_wait"
    /\ Resume(s, ctl[s].cont, ctl[s].text, tasks, tasks[s][ctl[s].cur].cancelAt)
    /\ UNCHANGED << cfg, switches, chat_history, conn, budget, shapeVars >>

\* `await current_turn_task` returns: the cancelled task is done
AfterCancelWait(s) ==
    /\ ctl[s].pc = "cancel_wait"
    /\ tasks[s][ctl[s].cur].pc = "done"
    /\ Resume(s, ctl[s].cont, ctl[s].text, tasks, tasks[s][ctl[s].cur].cancelAt)
    /\ UNCHANGED << cfg, switches, chat_history, conn, budget, shapeVars >>

-----------------------------------------------------------------------------
(* A turn: main.run_turn around brain.process_message.  The pc of a task   *)
(* names the await it is suspended in; a "send_x" pc means the message x    *)
(* has been handed to ws.send_json.                                        *)

InPipeline ==
    { "send_thinking", "llm1", "send_calling", "tool", "send_status", "llm2",
      "send_text", "tts", "send_audio", "send_speaking",
      "err_send_error", "err_send_idle" }

\* One step of task i of connection s: its record becomes t, it sends evs
\* and writes leds to the actuator.
Step(s, i, t, evs, leds) ==
    /\ tasks' = [tasks EXCEPT ![s][i] = t]
    /\ out' = [out EXCEPT ![s] = Sent(s, evs)]
    /\ led' = [led EXCEPT ![s] = @ \o leds]
    /\ UNCHANGED << cfg, switches, conn, ctl, budget, shapeVars >>

Runs(s, i, pc) ==
    /\ i \in DOMAIN tasks[s]
    /\ tasks[s][i].pc = pc
    /\ ~tasks[s][i].must_cancel

\* (ExceptedStateError: the handler announces the error state first)
ExceptedStateError(s, i, t, message, leds) ==
    Step(s, i, [t EXCEPT !.pc = "err_send_error", !.result = "errored"],
         << StateEvent("error", i), ErrorEvent(message, i) >>, leds)

\* (ExceptedSilent: the handler resets the state without an error message)
ExceptedSilent(s, i, t, message, leds) ==
    Step(s, i, [t EXCEPT !.pc = "err_send_error", !.result = "errored"], << >>, leds)

\* process_message's `except Exception as e`: the error message is sent
Excepted(s, i, t, message, leds) ==
    Step(s, i, [t EXCEPT !.pc = "err_send_error", !.result = "errored"],
         << ErrorEvent(message, i) >>, leds)

\* process_message returned: run_turn's finally calls set_idle_state
Finally(s, i, t, result, leds) ==
    Step(s, i, [t EXCEPT !.pc = "fin_send_idle", !.result = result],
         << StateEvent("idle", i) >>, leds)

\* (TaskCancelledAsFault: CancelledError caught by `except Exception`)
TaskCancelledAsFault(s, i) ==
    /\ i \in DOMAIN tasks[s]
    /\ tasks[s][i].must_cancel
    /\ tasks[s][i].pc # "done"
    /\ LET t == [tasks[s][i] EXCEPT !.must_cancel = FALSE] IN
       CASE t.pc = "new" ->
               Step(s, i, [t EXCEPT !.pc = "done", !.result = "cancelled"], << >>, << >>)
         [] t.pc \in InPipeline ->
               Excepted(s, i, t, "cancelled", << >>)
         [] t.pc = "fin_send_idle" ->
               Step(s, i, [t EXCEPT !.pc = "done"], << >>, << >>)
    /\ UNCHANGED chat_history

\* (TaskCancelledLate: a tool call in flight is shielded; its result is
\* reported before the cancellation takes effect)
TaskCancelledLate(s, i) ==
    /\ i \in DOMAIN tasks[s]
    /\ tasks[s][i].must_cancel
    /\ tasks[s][i].pc # "done"
    /\ LET t == [tasks[s][i] EXCEPT !.must_cancel = FALSE] IN
       CASE t.pc = "new" ->
               Step(s, i, [t EXCEPT !.pc = "done", !.result = "cancelled"], << >>, << >>)
         [] t.pc = "tool" ->
               Step(s, i, [tasks[s][i] EXCEPT !.pc = "send_status",
                                              !.tool_result = [ok |-> TRUE, events |-> 1]],
                    << ToolStatusEvent(t.tool_calls[t.idx], "done", i) >>, << >>)
         [] t.pc \in InPipeline \ { "tool" } ->
               Step(s, i, [t EXCEPT !.pc = "fin_send_idle", !.result = "cancelled"],
                    << StateEvent("idle", i) >>, << >>)
         [] t.pc = "fin_send_idle" ->
               Step(s, i, [t EXCEPT !.pc = "done"], << >>, << >>)
    /\ UNCHANGED chat_history

\* The task is resumed after task.cancel(): CancelledError is raised at the
\* await it is suspended in (a task that never ran ends without running).
TaskCancelled(s, i) ==
    /\ i \in DOMAIN tasks[s]
    /\ tasks[s][i].must_cancel
    /\ tasks[s][i].pc # "done"
    /\ LET t == [tasks[s][i] EXCEPT !.must_cancel = FALSE] IN
       CASE t.pc = "new" ->
               Step(s, i, [t EXCEPT !.pc = "done", !.result = "cancelled"], << >>, << >>)
         [] t.pc \in InPipeline ->
               Finally(s, i, t, "cancelled", << >>)
         [] t.pc = "fin_send_idle" ->
               \* raised inside set_idle_state: the actuator is not written
               Step(s, i, [t EXCEPT !.pc = "done"], << >>, << >>)
    /\ UNCHANGED chat_history

\* Step 1: the thinking state is sent
TaskStart(s, i) ==
    /\ Runs(s, i, "new")
    /\ Step(s, i, [tasks[s][i] EXCEPT !.pc = "send_thinking", !.ledAt = Len(led[s])],
            << StateEvent("thinking", i) >>, << >>)
    /\ UNCHANGED chat_history

Faults(kinds) == IF cfg.faults THEN kinds ELSE { }

\* brain._build_messages
build_messages(user_text) ==
    << [role |-> "system"] >> \o chat_history
        \o << [role |-> "user", content |-> user_text] >>

\* Steps 2-5: actuator, profile context, messages, first reasoning call
AfterThinking(s, i) ==
    /\ Runs(s, i, "send_thinking")
    /\ \E fault \in { "none" } \cup Faults({ "hardware", "profile" }) :
         LET t == tasks[s][i] IN
         CASE fault = "hardware" -> Excepted(s, i, t, "hardware", << >>)
           [] fault = "profile" -> Excepted(s, i, t, "profile", << "thinking" >>)
           [] fault = "none" ->
                Step(s, i, [t EXCEPT !.pc = "llm1",
                                     !.messages = build_messages(t.text)],
                     << >>, << "thinking" >>)
    /\ UNCHANGED chat_history

\* (SendSpeakingFirst: the speaking state goes out ahead of the text)
SendSpeakingFirst(s, i, t, c) ==
    LET text == ShapeResponse(c) IN
    Step(s, i, [t EXCEPT !.pc = "send_text", !.response_text = text,
                         !.requested = << >>],
         << StateEvent("speaking", i), TextEvent(text, t.tool_results_summary, i) >>,
         << >>)

\* Step 7: the text is shaped and assistant_text is sent
SendText(s, i, t, c) ==
    LET text == ShapeResponse(c) IN
    Step(s, i, [t EXCEPT !.pc = "send_text", !.response_text = text,
                         !.requested = << >>],
         << TextEvent(text, t.tool_results_summary, i) >>, << >>)

\* Step 6a: tool_status calling for the invocation at idx
SendCalling(s, i, t, idx) ==
    Step(s, i, [t EXCEPT !.pc = "send_calling", !.idx = idx, !.tried = << >>,
                         !.outcomes = << >>, !.provided = << >>],
         << ToolStatusEvent(t.tool_calls[idx], "calling", i) >>, << >>)

\* (TruncateNone: the list is used as returned)
TruncateNone(calls) == calls

\* tool_calls[:MAX_TOOL_CALLS_PER_TURN]
Truncate(calls) == Take(calls, MAX_TOOL_CALLS_PER_TURN)

\* llm_provider.chat(messages, tools=TOOL_DEFINITIONS) returns or raises
LlmReturn1(s, i) ==
    /\ Runs(s, i, "llm1")
    /\ LET t == tasks[s][i] IN
       \/ \E f \in Faults({ "llm" }) : Excepted(s, i, t, f, << >>)
       \/ \E calls \in cfg.calls :
            IF calls # << >>
            THEN SendCalling(s, i, [t EXCEPT !.requested = calls,
                                             !.tool_calls = Truncate(calls)], 1)
            ELSE \E c \in cfg.contents : SendText(s, i, t, c)
    /\ UNCHANGED chat_history

\* (SendStatusTwice: the status of a result is sent a second time)
SendStatusTwice(s, i, t, result) ==
    LET ev == ToolStatusEvent(t.tool_calls[t.idx],
                              IF result.ok THEN "done" ELSE "error", i)
    IN  Step(s, i, [t EXCEPT !.pc = "send_status", !.tool_result = result],
             << ev, ev >>, << >>)

\* (SendStatusAborts: a result that is not ok is raised as a fault)
SendStatusAborts(s, i, t, result) ==
    IF result.ok
    THEN Step(s, i, [t EXCEPT !.pc = "send_status", !.tool_result = result],
              << ToolStatusEvent(t.tool_calls[t.idx], "done", i) >>, << >>)
    ELSE Excepted(s, i, [t EXCEPT !.tool_result = result], "tool failed", << >>)

\* Step 6c: tool_status done/error for the result of execute_tool
SendStatus(s, i, t, result) ==
    Step(s, i, [t EXCEPT !.pc = "send_status", !.tool_result = result],
         << ToolStatusEvent(t.tool_calls[t.idx],
                            IF result.ok THEN "done" ELSE "error", i) >>,
         << >>)

\* (AfterCallingNoRegistry: execute_tool without the registry test; every
\* name is handed to the provider loop)
AfterCallingNoRegistry(s, i) ==
    /\ Runs(s, i, "send_calling")
    /\ LET t == [tasks[s][i] EXCEPT
                   !.dispatched = Append(@, tasks[s][i].tool_calls[tasks[s][i].idx])]
       IN  Step(s, i, [t EXCEPT !.pc = "tool", !.attempt = 0], << >>, << >>)
    /\ UNCHANGED chat_history

\* Step 6b begins: execute_tool answers an unknown name at once, and
\* otherwise awaits the provider for the first time
AfterCalling(s, i) ==
    /\ Runs(s, i, "send_calling")
    /\ LET t == [tasks[s][i] EXCEPT
                   !.dispatched = Append(@, tasks[s][i].tool_calls[tasks[s][i].idx])]
           name == t.tool_calls[t.idx]
       IN  IF name \notin TOOL_NAMES
           THEN SendStatus(s, i, t, UnknownToolResult(name))
           ELSE Step(s, i, [t EXCEPT !.pc = "tool", !.attempt = 0], << >>, << >>)
    /\ UNCHANGED chat_history

\* _run_tool: what the coroutine does when the provider function of
\* tool_name did `did`.  The providers are plain functions; six branches
\* return the call's value, the get_recommendations branch awaits it, and
\* awaiting a dict raises TypeError.
AwaitTypeError == << "object dict can't be used in 'await' expression" >>
run_tool(tool_name, did) ==
    IF tool_name = "get_recommendations" /\ did.kind = "return"
    THEN [kind |-> "raise", message |-> AwaitTypeError]
    ELSE did

\* asyncio.wait_for(_run_tool(...)) ends: one iteration of execute_tool's loop
ToolAttempt(s, i) ==
    /\ Runs(s, i, "tool")
    /\ \E did \in ProviderOutcomes :
         LET outcome == run_tool(tasks[s][i].tool_calls[tasks[s][i].idx], did)
             t == [tasks[s][i] EXCEPT !.tried = Append(@, outcome.kind),
                                      !.outcomes = Append(@, outcome),
                                      !.provided = Append(@, did)]
             r == execute_tool_attempt(t.attempt, outcome)
         IN  CASE r.kind = "return" -> SendStatus(s, i, t, r.result)
               [] r.kind = "continue" /\ HasNextAttempt(t.attempt) ->
                    Step(s, i, [t EXCEPT !.attempt = @ + 1], << >>, << >>)
               [] OTHER ->
                    \* a fault leaves execute_tool (or it returns None, and
                    \* tool_result.get raises): process_message's handler
                    Excepted(s, i, [t EXCEPT !.tool_fault = TRUE], "tool", << >>)
    /\ UNCHANGED chat_history

\* Step 6d, then the next invocation or the second reasoning call
AfterStatus(s, i) ==
    /\ Runs(s, i, "send_status")
    /\ LET t0 == tasks[s][i]
           name == t0.tool_calls[t0.idx]
           t == [t0 EXCEPT
                   !.messages = @ \o << [role |-> "assistant", tool_calls |-> << name >>],
                                        [role |-> "tool", content |-> t0.tool_result] >>,
                   !.tool_results_summary =
                       Append(@, [tool |-> name,
                                  summary |-> summarize_tool_result(name, t0.tool_result)])]
       IN  IF t.idx < Len(t.tool_calls)
           THEN SendCalling(s, i, t, t.idx + 1)
           ELSE Step(s, i, [t EXCEPT !.pc = "llm2", !.tried = << >>, !.outcomes = << >>, !.provided = << >>], << >>, << >>)
    /\ UNCHANGED chat_history

\* Step 6e: llm_provider.chat(messages, tools=None) returns or raises
LlmReturn2(s, i) ==
    /\ Runs(s, i, "llm2")
    /\ LET t == tasks[s][i] IN
       \/ \E f \in Faults({ "llm" }) : Excepted(s, i, t, f, << >>)
       \/ \E c \in cfg.contents : SendText(s, i, t, c)
    /\ UNCHANGED chat_history

\* (TrimOnce: `if` in place of `while`, one message is dropped)
TrimOnce(h) == IF Len(h) > MAX_HISTORY THEN Tail(h) ELSE h

\* (TrimNewest: pop() in place of pop(0), the newest messages are dropped)
TrimNewest(h) == Take(h, MAX_HISTORY)

\* "Update chat history": two appends, then pop(0) while over MAX_HISTORY
RECURSIVE Trim(_)
Trim(h) == IF Len(h) > MAX_HISTORY THEN Trim(Tail(h)) ELSE h

UpdateHistory(h, s, i, text, response_text) ==
    Trim(h \o << [role |-> "user", content |-> text, sess |-> s, turn |-> i],
                 [role |-> "assistant", content |-> response_text,
                  sess |-> s, turn |-> i] >>)

\* assistant_text went out: the history is updated and synthesis awaited
AfterText(s, i) ==
    /\ Runs(s, i, "send_text")
    /\ chat_history' =
           UpdateHistory(chat_history, s, i, tasks[s][i].text, tasks[s][i].response_text)
    /\ Step(s, i, [tasks[s][i] EXCEPT !.pc = "tts", !.appended = TRUE], << >>, << >>)

\* What can happen inside elevenlabs_tts.synthesize.
TtsOutcomes ==
    { "disabled", "empty_text", "cache_hit", "no_api_key", "ok",
      "http_error", "timeout", "connect_error", "unexpected" }

\* (synthesize_raises: the faults of the HTTP call are not caught)
synthesize_raises(outcome) ==
    CASE outcome \in { "cache_hit", "ok" } -> "path"
      [] outcome \in { "timeout", "connect_error", "unexpected" } -> "raise"
      [] OTHER -> "None"

\* elevenlabs_tts.synthesize: a file path, or None for every failure
synthesize(outcome) ==
    CASE outcome \in { "cache_hit", "ok" } -> "path"
      [] OTHER -> "None"

\* Steps 8-10: synthesize returns; assistant_audio_ready for a path, then
\* (or at once, for None) the speaking state
TtsReturn(s, i) ==
    /\ Runs(s, i, "tts")
    /\ \E outcome \in TtsOutcomes :
         LET audio_path == synthesize(outcome) IN
         CASE audio_path = "raise" ->
                Excepted(s, i, tasks[s][i], "tts", << >>)
           [] audio_path = "None" ->
                Step(s, i, [tasks[s][i] EXCEPT !.pc = "send_speaking"],
                     << StateEvent("speaking", i) >>, << >>)
           [] OTHER ->
                Step(s, i, [tasks[s][i] EXCEPT !.pc = "send_audio"],
                     << AudioEvent(i) >>, << >>)
    /\ UNCHANGED chat_history

AfterAudio(s, i) ==
    /\ Runs(s, i, "send_audio")
    /\ Step(s, i, [tasks[s][i] EXCEPT !.pc = "send_speaking"],
            << StateEvent("speaking", i) >>, << >>)
    /\ UNCHANGED chat_history

\* Step 11: the actuator is set to speaking and process_message returns
AfterSpeaking(s, i) ==
    /\ Runs(s, i, "send_speaking")
    /\ \E fault \in { "none" } \cup Faults({ "hardware" }) :
         IF fault = "hardware"
         THEN Excepted(s, i, tasks[s][i], "hardware", << >>)
         ELSE Finally(s, i, tasks[s][i], "ok", << "speaking" >>)
    /\ UNCHANGED chat_history

\* the handler: error is out, idle follows
AfterErrorSent(s, i) ==
    /\ Runs(s, i, "err_send_error")
    /\ Step(s, i, [tasks[s][i] EXCEPT !.pc = "err_send_idle"],
            << StateEvent("idle", i) >>, << >>)
    /\ UNCHANGED chat_history

\* the handler sets the actuator to idle and process_message returns
AfterErrorIdle(s, i) ==
    /\ Runs(s, i, "err_send_idle")
    /\ Finally(s, i, tasks[s][i], "errored", << "idle" >>)
    /\ UNCHANGED chat_history

\* set_idle_state in run_turn's finally: the actuator is set, the task ends
AfterFinalIdle(s, i) ==
    /\ Runs(s, i, "fin_send_idle")
    /\ Step(s, i, [tasks[s][i] EXCEPT !.pc = "done"], << >>, << "idle" >>)
    /\ UNCHANGED chat_history

-----------------------------------------------------------------------------
(* Response shaping on its own: every content of ShapeInputs is shaped *)

Letters(n) == [k \in 1..n |-> "a"]
TailChars == { "a", " ", ".", "!", "?" }
ShapeInputs ==
    { Letters(n) \o tl :
        n \in { 0 } \cup ((MAX_RESPONSE_CHARS - MaxTail)..(MAX_RESPONSE_CHARS + 1)),
        tl \in SeqsUpTo(TailChars, MaxTail) }

Shape ==
    /\ shaped = << >>
    /\ shaped' = << ShapeResponse(content) >>
    /\ UNCHANGED << content, sessionVars >>

-----------------------------------------------------------------------------

NoCtl == [pc |-> "none", cur |-> NoTask, cont |-> "", text |-> << >>]

InitSessions ==
    /\ cfg \in Scenarios
    /\ chat_history = << >>
    /\ conn = [s \in Sessions |-> "none"]
    /\ ctl = [s \in Sessions |-> NoCtl]
    /\ tasks = [s \in Sessions |-> << >>]
    /\ out = [s \in Sessions |-> << >>]
    /\ led = [s \in Sessions |-> << >>]
    /\ budget = [s \in Sessions |-> IF s \in cfg.sessions THEN cfg.inbound ELSE 0]
    /\ switches = cfg.switches

Init ==
    /\ InitSessions
    /\ content = << >>
    /\ shaped = << >>

Controller(s) ==
    \/ Connect(s)
    \/ OnText(s)
    \/ OnStartListening(s)
    \/ OnStopListening(s)
    \/ OnInterrupt(s)
    \/ OnOther(s)
    \/ OnMalformed(s)
    \/ OnListeningSendFails(s)
    \/ AfterSendFailed(s)
    \/ OnDisconnect(s)
    \/ AfterCancelWait(s)

Turn(s, i) ==
    \/ TaskCancelled(s, i)
    \/ TaskStart(s, i)
    \/ AfterThinking(s, i)
    \/ LlmReturn1(s, i)
    \/ AfterCalling(s, i)
    \/ ToolAttempt(s, i)
    \/ AfterStatus(s, i)
    \/ LlmReturn2(s, i)
    \/ AfterText(s, i)
    \/ TtsReturn(s, i)
    \/ AfterAudio(s, i)
    \/ AfterSpeaking(s, i)
    \/ AfterErrorSent(s, i)
    \/ AfterErrorIdle(s, i)
    \/ AfterFinalIdle(s, i)

Next ==
    \/ \E s \in Sessions :
          \/ Controller(s)
          \/ \E i \in TaskIds : Turn(s, i)
    \/ api_set_school

Spec == Init /\ [][Next]_vars

\* The event loop runs every task that can run, and resumes the handler
\* once the task it awaits has ended; the client need not send anything.
Fairness ==
    \A s \in Sessions :
        /\ WF_vars(AfterCancelWait(s))
        /\ \A i \in TaskIds : WF_vars(Turn(s, i))

SpecLive == Spec /\ Fairness

InitShape ==
    /\ InitSessions
    /\ cfg.name = "barge"
    /\ content \in ShapeInputs
    /\ shaped = << >>

NextShape == Shape

SpecShape == InitShape /\ [][NextShape]_vars

-----------------------------------------------------------------------------
(* Properties *)

TaskRefs == { << s, i >> \in Sessions \X TaskIds : i \in DOMAIN tasks[s] }
Task(r) == tasks[r[1]][r[2]]

\* C1: in every reachable state a connection has at most one live turn task
\* (created and not yet ended), whatever the client sends.
C1_SingleLiveTurn == \A s \in Sessions : Cardinality(Live(s)) <= 1

\* a second turn runs, spawned after the first one was cancelled for it
C1_Witness ==
    \E s \in Sessions :
        /\ Len(tasks[s]) >= 2
        /\ tasks[s][2].afterCancelAt >= 0
        /\ tasks[s][1].result = "cancelled"
        /\ tasks[s][2].pc \notin { "new", "done" }

\* C2: the messages sent by the turns of a connection appear in turn order:
\* nothing sent by turn N follows a message of a later turn.
C2_TurnsInOrder ==
    \A s \in Sessions : \A j, k \in DOMAIN out[s] :
        (j < k /\ out[s][j].turn > 0 /\ out[s][k].turn > 0)
            => out[s][j].turn <= out[s][k].turn

\* turn 1 was cancelled in the pipeline and turn 2 has sent its thinking state
C2_Witness ==
    \E s \in Sessions : \E j, k \in DOMAIN out[s] :
        /\ j < k
        /\ out[s][j] = StateEvent("idle", 1)
        /\ out[s][k] = StateEvent("thinking", 2)
        /\ tasks[s][1].result = "cancelled"

\* The messages sent after the cancellation that preceded the spawn of
\* turn n and before that turn's thinking state.
ThinkingAt(s, n) ==
    { q \in DOMAIN out[s] : out[s][q] = StateEvent("thinking", n) }
Gap(s, n, q) == SubSeq(out[s], tasks[s][n].afterCancelAt + 1, q - 1)
Barged(s) == { n \in DOMAIN tasks[s] : tasks[s][n].afterCancelAt >= 0 }

C4_HistoryOnlyOnSuccess ==
    \A r \in TaskRefs :
        Task(r).result \in { "cancelled", "errored" } => ~Task(r).appended

\* C5: a step of one connection (its handler or its turns) does not change
\* the history another open connection's turns read and append to.
StepOf(r) == ctl'[r] # ctl[r] \/ tasks'[r] # tasks[r]
C5_SessionsIndependent ==
    [][\A s \in Sessions :
          (/\ conn[s] = "open"
           /\ ~StepOf(s)
           /\ \E r \in Sessions \ { s } : StepOf(r))
              => chat_history' = chat_history]_vars

\* C6: the text of assistant_text is never longer than MAX_RESPONSE_CHARS,
\* the appended ellipsis counted.
C6_TextWithinMax ==
    shaped # << >> => Len(shaped[1]) <= MAX_RESPONSE_CHARS

\* The cut text: the first MAX_RESPONSE_CHARS characters without the
\* whitespace they end in.
CutLen(c) ==
    CHOOSE n \in 0..MAX_RESPONSE_CHARS :
        /\ n = 0 \/ c[n] \notin Whitespace
        /\ \A m \in (n + 1)..MAX_RESPONSE_CHARS : c[m] \in Whitespace
CutText(c) == SubSeq(c, 1, CutLen(c))

\* C7: a content longer than MAX_RESPONSE_CHARS is cut, the text sent ends
\* in '.', '!' or '?', and it is the cut text followed by "..." exactly when
\* the cut text does not end in '.', '!' or '?'.
C7_TruncatedEnding ==
    (shaped # << >> /\ Len(content) > MAX_RESPONSE_CHARS) =>
        LET text == shaped[1]
            cut == CutText(content)
        IN  /\ EndsWithTerminal(text)
            /\ text \in { cut, cut \o Ellipsis }
            /\ text = cut \o Ellipsis <=> ~EndsWithTerminal(cut)

\* the cut falls on whitespace after a letter, and the ellipsis is appended
C7_Witness ==
    /\ shaped # << >>
    /\ Len(content) > MAX_RESPONSE_CHARS
    /\ content[MAX_RESPONSE_CHARS] \in Whitespace
    /\ CutLen(content) = MAX_RESPONSE_CHARS - 1
    /\ shaped[1] = CutText(content) \o Ellipsis

\* C8: a turn dispatches at most MAX_TOOL_CALLS_PER_TURN tools, and they are
\* the first ones of the reasoning response, in its order.
C8_ToolCallsBounded ==
    \A r \in TaskRefs :
        LET t == Task(r) IN
        /\ Len(t.dispatched) <= MAX_TOOL_CALLS_PER_TURN
        /\ t.requested # << >> => t.dispatched = Take(t.requested, Len(t.dispatched))
        /\ t.pc = "llm2" =>
              t.dispatched = Take(t.requested, Min(Len(t.requested), MAX_TOOL_CALLS_PER_TURN))

\* the response carried more invocations than the cap and the loop is over
C8_Witness ==
    \E r \in TaskRefs :
        /\ Task(r).pc = "llm2"
        /\ Len(Task(r).requested) > MAX_TOOL_CALLS_PER_TURN
        /\ Len(Task(r).dispatched) = MAX_TOOL_CALLS_PER_TURN

\* C9: the provider of a known tool is attempted at most MAX_RETRIES + 1
\* times, and two deadline overruns give exactly {ok: false, error: "timeout"}.
C9_AttemptsBounded ==
    \A r \in TaskRefs :
        LET t == Task(r) IN
        /\ Len(t.tried) <= MAX_RETRIES + 1
        /\ t.tried = << "timeout", "timeout" >>
              => t.tool_result = [ok |-> FALSE, error |-> << "timeout" >>]

\* both attempts overran and the status of the call has been sent
C9_Witness ==
    \E r \in TaskRefs :
        /\ Task(r).pc = "send_status"
        /\ Task(r).tried = << "timeout", "timeout" >>

\* C10: execute_tool ends with a ToolResult for every name and every
\* provider outcome; no fault leaves it for the pipeline.
C10_AlwaysToolResult ==
    \A r \in TaskRefs :
        LET t == Task(r) IN
        /\ ~t.tool_fault
        /\ IsToolResult(t.tool_result)
        /\ (t.tried # << >> /\ t.tried[Len(t.tried)] # "return" /\ Len(t.tried) = MAX_RETRIES + 1)
              => (t.pc # "tool" /\ ~t.tool_result.ok)

\* the provider raised on both attempts and the pipeline has its result
C10_Witness ==
    \E r \in TaskRefs :
        /\ Task(r).pc = "send_status"
        /\ Task(r).tried = << "raise", "raise" >>
        /\ Task(r).tool_result = ErrResult(<< "provider fault" >>)

\* C11: a tool name the registry does not hold is answered at once with
\* {ok: false, error: "Unknown tool: <name>"}: the provider is never awaited
\* for it and no attempt of the retry loop is made.
C11_UnknownToolImmediate ==
    \A r \in TaskRefs :
        LET t == Task(r) IN
        (t.pc \in { "tool", "send_status" } /\ t.tool_calls[t.idx] \notin TOOL_NAMES) =>
            /\ t.pc = "send_status"
            /\ t.tried = << >>
            /\ t.tool_result = ErrResult(<< "Unknown tool: ", t.tool_calls[t.idx] >>)

\* the second invocation names an unknown tool, after a known one that was
\* retried, and its error status has been sent
C11_Witness ==
    \E r \in TaskRefs :
        LET t == Task(r) IN
        /\ t.pc = "send_status"
        /\ t.idx = 2
        /\ t.tool_calls[2] = "play_music"
        /\ t.tool_calls[1] = "get_events"
        /\ t.tool_result.ok = FALSE
        /\ out[r[1]][Len(out[r[1]])] = ToolStatusEvent("play_music", "error", r[2])

\* The positions of out[s] holding messages of turn i, and those of a type.
SentBy(s, i) == { k \in DOMAIN out[s] : out[s][k].turn = i }
SentByOfType(s, i, type) == { k \in SentBy(s, i) : out[s][k].type = type }
Last(S) == CHOOSE k \in S : \A m \in S : m <= k

\* C12: a turn aborted by a fault of the pipeline sends exactly one error
\* message, with recoverable true; every state it sends after it is idle,
\* and once the turn has ended idle is the last message it sent.  No turn
\* sends more than one error message.
C12_FaultOneErrorThenIdle ==
    \A r \in TaskRefs :
        LET s == r[1]
            i == r[2]
            errs == SentByOfType(s, i, "error")
        IN  /\ Cardinality(errs) <= 1
            /\ \A k \in errs : out[s][k].recoverable = TRUE
            /\ Task(r).result = "errored" =>
                  /\ Cardinality(errs) = 1
                  /\ \A k \in SentBy(s, i) :
                        k > Last(errs) => out[s][k] = StateEvent("idle", i)
                  /\ Task(r).pc = "done" =>
                        out[s][Last(SentBy(s, i))] = StateEvent("idle", i)

\* the second reasoning call of a turn faulted after a tool had run, and the
\* turn has ended
C12_Witness ==
    \E r \in TaskRefs :
        /\ Task(r).result = "errored"
        /\ Task(r).pc = "done"
        /\ Task(r).tool_results_summary # << >>
        /\ SentByOfType(r[1], r[2], "error") # { }

\* The messages turn i of connection s has sent, in order.
EventsOf(s, i) == SelectSeq(out[s], LAMBDA e : e.turn = i)

\* The first reasoning call of the turn raised, and the turn ran to its end.
FirstCallFailed(r) ==
    /\ Task(r).pc = "done"
    /\ Task(r).result = "errored"
    /\ Task(r).messages # << >>
    /\ Task(r).tool_calls = << >>
    /\ Task(r).response_text = << >>

\* C13: when the first reasoning call of a turn fails, the messages of the
\* turn are exactly thinking, error (recoverable), idle.
C13_LlmFaultSequence ==
    \A r \in TaskRefs :
        FirstCallFailed(r) =>
            EventsOf(r[1], r[2]) =
                << StateEvent("thinking", r[2]), ErrorEvent("llm", r[2]),
                   StateEvent("idle", r[2]) >>

\* The turn asked for one tool, the tool succeeded, and the turn ran to its
\* end without a fault or a cancellation.
OneToolSucceeded(r) ==
    /\ Task(r).pc = "done"
    /\ Task(r).result = "ok"
    /\ Len(Task(r).tool_calls) = 1
    /\ Task(r).tool_result.ok

\* C14: a turn with a single successful tool invocation sends exactly
\* thinking, tool_status calling, tool_status done, assistant_text with the
\* tool summary, assistant_audio_ready (or not), speaking, and nothing after
\* speaking.
C14_OneToolSequence ==
    \A r \in TaskRefs :
        OneToolSucceeded(r) =>
            LET i == r[2]
                t == Task(r)
                name == t.tool_calls[1]
                head == << StateEvent("thinking", i),
                           ToolStatusEvent(name, "calling", i),
                           ToolStatusEvent(name, "done", i),
                           TextEvent(t.response_text,
                                     << [tool |-> name,
                                         summary |-> summarize_tool_result(name, t.tool_result)] >>,
                                     i) >>
                speaking == << StateEvent("speaking", i) >>
            IN  EventsOf(r[1], i) \in
                    { head \o speaking, head \o << AudioEvent(i) >> \o speaking }

\* Turn i of connection s has begun to run.
Started(s, i) == i \in DOMAIN tasks[s] /\ tasks[s][i].ledAt >= 0

\* An idle state was sent on the connection after the turn's thinking state
\* (a connection the client has left cannot be sent anything).
IdleSentAfter(s, i) ==
    \/ conn[s] = "closed"
    \/ \E q \in ThinkingAt(s, i) : \E k \in DOMAIN out[s] :
          k > q /\ out[s][k].type = "assistant_state" /\ out[s][k].state = "idle"

\* The actuator was set to idle after the turn began to run.
IdleSignalAfter(s, i) ==
    /\ i \in DOMAIN tasks[s]
    /\ \E k \in DOMAIN led[s] : k > tasks[s][i].ledAt /\ led[s][k] = "idle"

\* C15: every turn that begins to run is eventually followed by an
\* assistant_state idle message and by an idle signal to the actuator.
C15_EventuallyIdle ==
    \A s \in Sessions : \A i \in TaskIds :
        Started(s, i) ~> (IdleSentAfter(s, i) /\ IdleSignalAfter(s, i))

\* The assistant_state values sent on connection s, in order.
StatesOf(s) ==
    LET ev == SelectSeq(out[s], LAMBDA e : e.type = "assistant_state")
    IN  [k \in DOMAIN ev |-> ev[k].state]

\* The transitions of the state machine; sending the same state again is no
\* transition.
Transition(a, b) ==
    \/ a = b
    \/ b = "idle"
    \/ b = "listening" /\ a = "idle"
    \/ b = "thinking" /\ a \in { "idle", "listening" }
    \/ b = "speaking" /\ a = "thinking"

\* C16: consecutive assistant_state values sent on a connection are related
\* by the state machine: listening only after idle, thinking only after idle
\* or listening, speaking only after thinking, idle after anything.
C16_StateTransitions ==
    \A s \in Sessions :
        LET st == StatesOf(s) IN
        \A k \in DOMAIN st : k > 1 => Transition(st[k - 1], st[k])

\* h without its first n messages
Drop(h, n) == SubSeq(h, n + 1, Len(h))

\* The step in which turn r appends its exchange.
Appends(r) == ~Task(r).appended /\ tasks'[r[1]][r[2]].appended

\* The (user, assistant) pair of turn r.
Exchange(r) ==
    << [role |-> "user", content |-> Task(r).text, sess |-> r[1], turn |-> r[2]],
       [role |-> "assistant", content |-> Task(r).response_text,
        sess |-> r[1], turn |-> r[2]] >>

\* A turn that appends leaves the history with its pair at the end and
\* without the oldest messages over the cap, the rest in their order; any
\* other step that changes the history empties it (clear_history).
AppendsAndEvicts ==
    /\ \A r \in TaskRefs :
          Appends(r) =>
              LET full == chat_history \o Exchange(r)
                  n == Min(Len(full), MAX_HISTORY)
              IN  chat_history' = Drop(full, Len(full) - n)
    /\ chat_history' # chat_history =>
          \/ chat_history' = << >>
          \/ \E r \in TaskRefs : Appends(r)

\* C17: the history never holds more than MAX_HISTORY messages, and an
\* append over the cap drops exactly the oldest messages, the remaining ones
\* keeping their order.
C17_HistoryCapped ==
    /\ [](Len(chat_history) <= MAX_HISTORY)
    /\ [][AppendsAndEvicts]_vars

\* the sixth exchange has been appended: the history is full and the first
\* exchange is gone
C17_Witness ==
    /\ Len(chat_history) = MAX_HISTORY
    /\ chat_history[1].turn = 2
    /\ chat_history[MAX_HISTORY].turn = PoliteTurns
    /\ \A k \in 1..(MAX_HISTORY - 1) : chat_history[k].turn <= chat_history[k + 1].turn

\* C18: a speaking state of a turn is preceded by that turn's assistant_text,
\* and a turn sends at most one assistant_text.
C18_TextBeforeSpeaking ==
    \A r \in TaskRefs :
        LET s == r[1]
            i == r[2]
            texts == SentByOfType(s, i, "assistant_text")
        IN  /\ Cardinality(texts) <= 1
            /\ \A k \in SentBy(s, i) :
                  out[s][k] = StateEvent("speaking", i) =>
                      /\ Cardinality(texts) = 1
                      /\ \A q \in texts : q < k

\* a turn that ran a tool has sent its text, then the audio notice, then speaking
C18_Witness ==
    \E r \in TaskRefs : \E q, k \in SentBy(r[1], r[2]) :
        /\ q + 2 = k
        /\ out[r[1]][q].type = "assistant_text"
        /\ out[r[1]][q].tool_results # << >>
        /\ out[r[1]][q + 1] = AudioEvent(r[2])
        /\ out[r[1]][k] = StateEvent("speaking", r[2])

\* C19: an interrupt handled while the connection has no live turn cancels
\* nothing, sends exactly one message, assistant_state idle, signals idle to
\* the actuator once, and leaves the history as it was.
C19_IdleInterrupt ==
    [][\A s \in Sessions :
          (OnInterrupt(s) /\ Live(s) = { }) =>
              /\ tasks' = tasks
              /\ out'[s] = Append(out[s], StateEvent("idle", 0))
              /\ led'[s] = Append(led[s], "idle")
              /\ chat_history' = chat_history
              /\ ctl'[s].pc = "recv" /\ ctl'[s].cur = NoTask]_vars

\* a turn ran to its end uncancelled, and the interrupt that followed has
\* been handled ("toolbarge" clients send only texts and interrupts)
C19_Witness ==
    \E s \in Sessions :
        /\ cfg.name = "toolbarge"
        /\ Len(tasks[s]) = 1
        /\ tasks[s][1].pc = "done" /\ tasks[s][1].result = "ok"
        /\ tasks[s][1].cancelAt = -1
        /\ budget[s] = 0
        /\ ctl[s].pc = "recv" /\ ctl[s].cur = NoTask
        /\ Len(out[s]) >= 2
        /\ out[s][Len(out[s]) - 1] = StateEvent("idle", 1)
        /\ out[s][Len(out[s])] = StateEvent("idle", 0)
        /\ Len(chat_history) = 2

AwaitsCancelled(s) ==
    /\ ctl[s].pc = "cancel_wait"
    /\ tasks[s][ctl[s].cur].pc # "done"

\* The messages a step appends to out[s].
NewlySent(s) == SubSeq(out'[s], Len(out[s]) + 1, Len(out'[s]))

\* C21: from the request of a cancellation until the cancelled task has
\* ended, its cleanup included, the handler does nothing: it spawns no
\* turn, sends no message of its own and takes no inbound message.
C21_CancelIsSynchronous ==
    [][\A s \in Sessions :
          AwaitsCancelled(s) =>
              /\ ctl'[s] = ctl[s]
              /\ Len(tasks'[s]) = Len(tasks[s])
              /\ budget'[s] = budget[s]
              /\ conn'[s] = conn[s]
              /\ \A k \in DOMAIN NewlySent(s) : NewlySent(s)[k].turn = ctl[s].cur]_vars

\* a text arrived during a turn; the old turn is in its cleanup, its idle
\* state handed to the socket, and the handler still waits to spawn
C21_Witness ==
    \E s \in Sessions :
        /\ ctl[s].pc = "cancel_wait"
        /\ ctl[s].cont = "spawn"
        /\ tasks[s][ctl[s].cur].pc = "fin_send_idle"
        /\ tasks[s][ctl[s].cur].result = "cancelled"
        /\ Len(tasks[s]) = ctl[s].cur

\* C22: once the handler of a connection has returned (the client left, or
\* the receive loop raised), every turn task of the connection has ended:
\* no turn outlives its connection and none has a step left to take.
C22_NoTurnOutlivesConnection ==
    \A s \in Sessions :
        ctl[s].pc = "closed" =>
            \A i \in DOMAIN tasks[s] :
                tasks[s][i].pc = "done" /\ ~tasks[s][i].must_cancel

\* the client left while a turn awaited the reasoning service; the turn was
\* cancelled, ran its cleanup, and the handler has returned
C22_Witness ==
    \E s \in Sessions :
        /\ conn[s] = "closed"
        /\ ctl[s].pc = "closed"
        /\ Len(tasks[s]) = 1
        /\ tasks[s][1].result = "cancelled"
        /\ tasks[s][1].messages # << >>
        /\ tasks[s][1].response_text = << >>
        /\ led[s] = << "thinking", "idle" >>

\* The summary of a result that was not ok: "<tool> failed: <error>".
IsFailureSummary(e) == Len(e.summary) >= 2 /\ e.summary[2] = " failed: "
FailedCalls(t) ==
    { k \in DOMAIN t.tool_results_summary : IsFailureSummary(t.tool_results_summary[k]) }

\* C23: a tool result that is not ok does not abort the turn.  Its status
\* goes out as tool_status error; where no collaborator other than a tool
\* fails, no turn ends in the fault handler and none sends an error message;
\* and a turn that ran to its end has sent one tool_status error per failed
\* invocation, one assistant_text carrying every summary, and speaking.
C23_ToolFailureContained ==
    \A r \in TaskRefs :
        LET s == r[1]
            i == r[2]
            t == Task(r)
        IN  /\ (t.pc = "send_status" /\ ~t.tool_result.ok) =>
                  out[s][Last(SentBy(s, i))] =
                      ToolStatusEvent(t.tool_calls[t.idx], "error", i)
            /\ ~cfg.faults =>
                  (t.result # "errored" /\ SentByOfType(s, i, "error") = { })
            /\ (t.pc = "done" /\ t.result = "ok" /\ t.tool_calls # << >>) =>
                  /\ Len(t.tool_results_summary) = Len(t.tool_calls)
                  /\ Cardinality({ k \in SentByOfType(s, i, "tool_status") :
                                      out[s][k].status = "error" })
                        = Cardinality(FailedCalls(t))
                  /\ \E k \in SentBy(s, i) :
                        out[s][k] = TextEvent(t.response_text, t.tool_results_summary, i)
                  /\ \E k \in SentBy(s, i) : out[s][k] = StateEvent("speaking", i)
                  /\ SentByOfType(s, i, "error") = { }

\* the first tool overran its deadline twice, the second succeeded, and the
\* turn ran to its end
C23_Witness ==
    \E r \in TaskRefs :
        LET t == Task(r) IN
        /\ t.pc = "done" /\ t.result = "ok"
        /\ Len(t.tool_results_summary) = 2
        /\ FailedCalls(t) = { 1 }
        /\ t.tool_results_summary[1].summary = << "get_events", " failed: ", "timeout" >>
        /\ \E k \in SentBy(r[1], r[2]) :
              out[r[1]][k] = StateEvent("speaking", r[2])

\* Turn i of connection s has sent speaking without assistant_audio_ready:
\* synthesis gave no file.
SpokeWithoutAudio(s, i) ==
    /\ \E k \in SentBy(s, i) : out[s][k] = StateEvent("speaking", i)
    /\ SentByOfType(s, i, "assistant_audio_ready") = { }

\* C24: a synthesis that gives no file is not a turn error.  The turn's
\* speaking state follows its assistant_text directly, the exchange is in
\* the history update as for any turn, no error message precedes speaking,
\* and no turn sends an error message between its text and its speaking
\* state.
C24_NoAudioIsNoError ==
    \A r \in TaskRefs :
        LET s == r[1]
            i == r[2]
            ev == EventsOf(s, i)
        IN  /\ SpokeWithoutAudio(s, i) =>
                  \E k \in DOMAIN ev :
                      /\ k > 1
                      /\ ev[k] = StateEvent("speaking", i)
                      /\ ev[k - 1].type = "assistant_text"
                      /\ \A q \in 1..k : ev[q].type # "error"
                      /\ Task(r).appended
            /\ \A k \in DOMAIN ev :
                  (ev[k].type = "error" /\ \E q \in 1..k : ev[q].type = "assistant_text")
                      => \E q \in 1..k : ev[q] = StateEvent("speaking", i)

\* synthesis gave no file; the turn ran to its end with the exchange in the
\* history
C24_Witness ==
    \E r \in TaskRefs :
        /\ SpokeWithoutAudio(r[1], r[2])
        /\ Task(r).pc = "done"
        /\ Task(r).result = "ok"
        /\ \E k \in DOMAIN chat_history :
              /\ chat_history[k].role = "assistant"
              /\ chat_history[k].sess = r[1] /\ chat_history[k].turn = r[2]

\* C25: every error message on a connection was sent by a turn, from the
\* fault handler of the pipeline; the handler of the connection sends none.
C25_OnlyPipelineSendsError ==
    \A s \in Sessions : \A k \in DOMAIN out[s] :
        out[s][k].type = "error" =>
            /\ out[s][k].turn \in DOMAIN tasks[s]
            /\ tasks[s][out[s][k].turn].result \in { "errored", "cancelled" }

\* The tool_status messages of turn i of connection s, in order.
ToolStatusOf(s, i) == SelectSeq(EventsOf(s, i), LAMBDA e : e.type = "tool_status")

\* The turn is past its tool loop.
PastToolLoop(t) ==
    /\ t.tool_calls # << >>
    /\ \/ t.pc \in { "llm2", "send_text", "tts", "send_audio", "send_speaking" }
       \/ t.result = "ok"

\* C26: the tool_status messages of a turn come in pairs, in the order of
\* the invocations: calling for the k-th invocation, then done or error for
\* the same tool, before anything of the next invocation; a turn that is
\* past its tool loop has sent the pair of every invocation.
C26_ToolStatusPairs ==
    \A r \in TaskRefs :
        LET t == Task(r)
            ts == ToolStatusOf(r[1], r[2])
        IN  /\ Len(ts) <= 2 * Len(t.tool_calls)
            /\ \A k \in DOMAIN ts :
                  /\ ts[k].tool = t.tool_calls[(k + 1) \div 2]
                  /\ k % 2 = 1 => ts[k].status = "calling"
                  /\ k % 2 = 0 => ts[k].status \in { "done", "error" }
            /\ PastToolLoop(t) => Len(ts) = 2 * Len(t.tool_calls)
            /\ t.pc = "send_status" => Len(ts) = 2 * t.idx
            /\ t.pc \in { "send_calling", "tool" } => Len(ts) = 2 * t.idx - 1

\* two invocations, the first done and the second in error, both pairs sent
C26_Witness ==
    \E r \in TaskRefs :
        LET ts == ToolStatusOf(r[1], r[2]) IN
        /\ Len(ts) = 4
        /\ ts[1].tool = "get_events" /\ ts[2].status = "done"
        /\ ts[3].tool = "play_music" /\ ts[4].status = "error"
        /\ Task(r).pc = "llm2"

\* The cancellation of the turn was requested while execute_tool awaited
\* the provider.
CancelledInTool(t) == t.cancelPc = "tool"

Echoes(s, state) ==
    /\ tasks' = tasks
    /\ ctl' = ctl
    /\ chat_history' = chat_history
    /\ out'[s] = Append(out[s], StateEvent(state, 0))
    /\ led'[s] = Append(led[s], state)

\* C28: handling start_listening or stop_listening cancels no turn, spawns
\* none and leaves the history unchanged; it sends exactly one
\* assistant_state (listening, respectively idle) and signals the actuator
\* once, also while a turn is in flight.
C28_ListenIsEcho ==
    [][\A s \in Sessions :
          /\ OnStartListening(s) => Echoes(s, "listening")
          /\ OnStopListening(s) => Echoes(s, "idle")]_vars

\* start_listening was handled while a turn awaited the reasoning service,
\* and the turn is still running
C28_Witness ==
    \E s \in Sessions :
        /\ Len(tasks[s]) = 1
        /\ tasks[s][1].pc = "llm1"
        /\ ~tasks[s][1].must_cancel
        /\ ctl[s].cur = 1
        /\ out[s] # << >>
        /\ out[s][Len(out[s])] = StateEvent("listening", 0)
        /\ led[s] = << "thinking", "listening" >>

\* Turn i of connection s has been answered: an assistant_text or an error
\* message of the turn was sent.
Answered(s, i) ==
    \/ SentByOfType(s, i, "assistant_text") # { }
    \/ SentByOfType(s, i, "error") # { }

\* The cancellation of turn i of connection s has been requested.
CancelRequested(s, i) == i \in DOMAIN tasks[s] /\ tasks[s][i].cancelAt >= 0

\* C29: every text that spawned a turn is eventually answered on its
\* connection by an assistant_text or an error message of that turn, unless
\* the turn is cancelled: again and again, every turn spawned so far has
\* been answered or cancelled.
C29_TextIsAnswered ==
    []<>(\A r \in TaskRefs : Answered(r[1], r[2]) \/ CancelRequested(r[1], r[2]))

\* a turn that was never cancelled has ended, answered by an error message
\* and no text
C29_Witness ==
    \E r \in TaskRefs :
        /\ Task(r).pc = "done"
        /\ Task(r).cancelAt = -1
        /\ SentByOfType(r[1], r[2], "error") # { }
        /\ SentByOfType(r[1], r[2], "assistant_text") = { }

\* The step in which turn r adds the summary of the result it holds.
Summarizes(r) ==
    Len(tasks'[r[1]][r[2]].tool_results_summary) = Len(Task(r).tool_results_summary) + 1

\* C30: the summary of a result that is not ok is "<tool> failed: <error>"
\* with the error text of the result, "<tool> failed: timeout" after two
\* deadline overruns; and assistant_text carries the summaries of the turn.
C30_FailureSummary ==
    /\ [][\A r \in TaskRefs :
            Summarizes(r) =>
                LET t == Task(r)
                    e == tasks'[r[1]][r[2]].tool_results_summary[Len(t.tool_results_summary) + 1]
                IN  /\ e.tool = t.tool_calls[t.idx]
                    /\ ~t.tool_result.ok =>
                          e.summary = << e.tool, " failed: " >> \o t.tool_result.error
                    /\ t.tried = << "timeout", "timeout" >> =>
                          e.summary = << e.tool, " failed: ", "timeout" >>]_vars
    /\ [](\A r \in TaskRefs : \A k \in SentByOfType(r[1], r[2], "assistant_text") :
            out[r[1]][k].tool_results = Task(r).tool_results_summary)

\* a tool overran its deadline on both attempts and the text of the turn
\* carries "get_events failed: timeout"
C30_Witness ==
    \E r \in TaskRefs : \E k \in SentByOfType(r[1], r[2], "assistant_text") :
        /\ out[r[1]][k].tool_results # << >>
        /\ out[r[1]][k].tool_results[1] =
              [tool |-> "get_events",
               summary |-> << "get_events", " failed: ", "timeout" >>]

\* C31: after a reset (a new connection, an accepted school switch) the
\* history holds no exchange of a turn that had begun to run before it.
C31_NoStaleExchange ==
    \A k \in DOMAIN chat_history :
        ~tasks[chat_history[k].sess][chat_history[k].turn].stale

\* The awaits of a turn in which it waits for a service outside the process
\* (reasoning, tool provider, speech): no statement of the turn is half-way.
Suspended == { "llm1", "tool", "llm2", "tts" }

\* No handler is running and no turn is between two of its statements.
Quiescent(s) ==
    /\ conn[s] = "open"
    /\ ctl[s].pc = "recv"
    /\ \A i \in Live(s) : tasks[s][i].pc \in Suspended /\ ~tasks[s][i].must_cancel

\* C32: whenever the session is quiescent and its code has written to the
\* actuator, the actuator shows the state of the last assistant_state event
\* the session emitted.
C32_ActuatorShowsLastState ==
    \A s \in Sessions :
        (Quiescent(s) /\ led[s] # << >>) =>
            led[s][Len(led[s])] = StatesOf(s)[Len(StatesOf(s))]

\* The attempt failed: the provider overran its deadline or raised.
FailedAttempt(o) == o.kind \in { "timeout", "raise" }

\* C33: after a first attempt that overran or raised the provider is invoked
\* once more and never a third time; execute_tool does not return before the
\* second attempt has ended, and a second attempt that returns is handed on
\* unchanged.
C33_RetriedOnceSecondResultUnchanged ==
    \A r \in TaskRefs :
        LET t == Task(r)
            o == t.outcomes
        IN  (o # << >> /\ FailedAttempt(o[1])) =>
                /\ Len(o) <= 2
                /\ Len(o) = 1 => (t.attempt = 1 /\ t.pc # "send_status")
                /\ t.pc = "send_status" =>
                      /\ Len(o) = 2
                      /\ o[2].kind = "return" => t.tool_result = o[2].result

\* the first attempt overran, the second returned one event and that result
\* is the one whose status was sent
C33_Witness ==
    \E r \in TaskRefs :
        /\ Task(r).pc = "send_status"
        /\ Task(r).outcomes = << [kind |-> "timeout"],
                                 [kind |-> "return", result |-> OkResult(1)] >>
        /\ Task(r).tool_result = OkResult(1)
        /\ out[r[1]][Len(out[r[1]])] = ToolStatusEvent("get_events", "done", r[2])

\* C34: a provider result with ok false that was returned as a value ends
\* the invocation: the provider is not invoked again and execute_tool returns
\* that result unchanged; returned by the first attempt, it is the only one.
C34_NotOkNotRetried ==
    \A r \in TaskRefs :
        LET t == Task(r)
            o == t.outcomes
        IN  \A k \in DOMAIN o :
                (o[k].kind = "return" /\ ~o[k].result.ok) =>
                    /\ k = Len(o)
                    /\ t.pc # "tool"
                    /\ t.pc = "send_status" => t.tool_result = o[k].result

\* the first attempt returned {ok: false, error: "not found"}, and that is
\* the result of the invocation
C34_Witness ==
    \E r \in TaskRefs :
        /\ Task(r).pc = "send_status"
        /\ Task(r).outcomes =
              << [kind |-> "return", result |-> ErrResult(<< "not found" >>)] >>
        /\ Task(r).tool_result = ErrResult(<< "not found" >>)

\* The error execute_tool reports for a failed attempt taken alone.
ErrorOf(o) == IF o.kind = "timeout" THEN << "timeout" >> ELSE o.message

\* C35: when both attempts failed, the result is {ok: false} with the error
\* of the second attempt: "timeout" for an overrun, the fault's message for
\* a fault, whatever the first attempt did.
C35_SecondFailureDecides ==
    \A r \in TaskRefs :
        LET t == Task(r)
            o == t.outcomes
        IN  (t.pc = "send_status" /\ Len(o) = 2
                /\ FailedAttempt(o[1]) /\ FailedAttempt(o[2])) =>
                t.tool_result = ErrResult(ErrorOf(o[2]))

\* an overrun was followed by a fault and the result carries the fault's
\* message
C35_Witness ==
    \E r \in TaskRefs :
        /\ Task(r).pc = "send_status"
        /\ Task(r).tried = << "timeout", "raise" >>
        /\ Task(r).tool_result = ErrResult(<< "provider fault" >>)

\* C36: the history is a sequence of complete exchanges: its length is even,
\* every odd position holds a user message and the next one the assistant
\* message of the same turn.
C36_CompleteExchanges ==
    /\ Len(chat_history) % 2 = 0
    /\ \A k \in DOMAIN chat_history :
          IF k % 2 = 1
          THEN /\ chat_history[k].role = "user"
               /\ k + 1 \in DOMAIN chat_history
               /\ chat_history[k + 1].sess = chat_history[k].sess
               /\ chat_history[k + 1].turn = chat_history[k].turn
          ELSE chat_history[k].role = "assistant"

\* the cap has evicted the first exchange and the history is full
C36_Witness ==
    /\ Len(chat_history) = MAX_HISTORY
    /\ chat_history[1].role = "user"
    /\ chat_history[1].turn > 1
    /\ \E r \in TaskRefs : r[2] = 1 /\ Task(r).appended

\* A text of nothing but white space.
IsBlank(text) == \A k \in DOMAIN text : text[k] = " "

\* The step leaves the turns, the handler, the messages sent, the actuator
\* and the history of every connection as they were.
WithoutEffect ==
    /\ tasks' = tasks
    /\ ctl' = ctl
    /\ out' = out
    /\ led' = led
    /\ conn' = conn
    /\ chat_history' = chat_history

\* C37: handling a chat or transcript_final whose text is blank, or a message
\* of a type no branch names, sends nothing, spawns no turn and cancels none.
C37_BlankAndUnknownIgnored ==
    [][\A s \in Sessions :
          /\ \A m \in Takes(s, { "transcript_final", "chat" }) :
                (Receiving(s) /\ IsBlank(m.text) /\ HandleText(s, m)) => WithoutEffect
          /\ OnOther(s) => WithoutEffect]_vars

\* both inbound messages were handled, one of them without effect: the turn
\* the other one spawned is still awaiting the reasoning service, uncancelled
C37_Witness ==
    \E s \in Sessions :
        /\ cfg.name = "barge"
        /\ budget[s] = 0
        /\ Receiving(s)
        /\ Len(tasks[s]) = 1
        /\ tasks[s][1].pc = "llm1"
        /\ ~tasks[s][1].must_cancel
        /\ StatesOf(s) = << "idle", "thinking" >>

\* The handler of s has left its receive loop through `except Exception`:
\* it awaits the cancelled turn, or it has returned.
LoopLeftByFault(s) ==
    /\ conn[s] = "open"
    /\ \/ ctl[s].pc = "closed"
       \/ ctl[s].pc = "cancel_wait" /\ ctl[s].cont \in { "fail", "fail_send" }

\* C38: after a fault of the handler (a message that cannot be parsed, a
\* send that raises) the receive loop is over for good: no inbound message
\* of the connection is handled any more and no turn is spawned; the turn
\* that was in flight has been cancelled, and once the handler has returned
\* no turn of the connection is alive.
C38_FaultEndsReceiveLoop ==
    /\ [](\A s \in Sessions :
            /\ (LoopLeftByFault(s) /\ ctl[s].pc = "cancel_wait") =>
                   tasks[s][ctl[s].cur].cancelAt >= 0
            /\ (LoopLeftByFault(s) /\ ctl[s].pc = "closed") => Live(s) = { })
    /\ [][\A s \in Sessions :
            LoopLeftByFault(s) =>
                /\ LoopLeftByFault(s)'
                /\ budget'[s] = budget[s]
                /\ Len(tasks'[s]) = Len(tasks[s])]_vars

\* the send of the listening state raised while a turn awaited the reasoning
\* service: the turn ended cancelled and the handler has returned
C38_Witness ==
    \E s \in Sessions :
        /\ LoopLeftByFault(s)
        /\ ctl[s].pc = "closed"
        /\ Len(tasks[s]) = 1
        /\ tasks[s][1].result = "cancelled"
        /\ tasks[s][1].cancelPc = "llm1"
        /\ led[s][Len(led[s]) - 1] = "listening"

\* The states the program announces.
AnnouncedStates == { "idle", "listening", "thinking", "speaking" }

\* C39: every assistant_state event carries idle, listening, thinking or
\* speaking, never error, and the actuator is never written error.
C39_NoErrorState ==
    \A s \in Sessions :
        /\ \A k \in DOMAIN out[s] :
              out[s][k].type = "assistant_state" => out[s][k].state \in AnnouncedStates
        /\ \A k \in DOMAIN led[s] : led[s][k] \in AnnouncedStates

\* a turn was aborted by a fault: its error message is followed by its idle
\* state and the turn has ended
C39_Witness ==
    \E r \in TaskRefs : \E k \in DOMAIN out[r[1]] :
        /\ Task(r).pc = "done"
        /\ Task(r).result = "errored"
        /\ out[r[1]][k].type = "error"
        /\ out[r[1]][k].turn = r[2]
        /\ k + 1 \in DOMAIN out[r[1]]
        /\ out[r[1]][k + 1] = StateEvent("idle", r[2])
        /\ StatesOf(r[1]) \in Seq(AnnouncedStates)

\* The provider function of the invocation at idx returned an ok result in
\* the attempt that ended the invocation.
ProviderSucceeded(t) ==
    /\ t.pc = "send_status"
    /\ t.provided # << >>
    /\ t.provided[Len(t.provided)].kind = "return"
    /\ t.provided[Len(t.provided)].result.ok

\* C40: for every tool of the registry, when the provider returned an ok
\* result, execute_tool returns that result, the turn sends tool_status done
\* for the tool and the summary is the tool's success summary ("Found 1
\* recommendation" for get_recommendations).
C40_EveryToolCanSucceed ==
    \A r \in TaskRefs :
        LET t == Task(r)
            name == t.tool_calls[t.idx]
        IN  ProviderSucceeded(t) =>
                /\ t.tool_result = t.provided[Len(t.provided)].result
                /\ out[r[1]][Len(out[r[1]])] = ToolStatusEvent(name, "done", r[2])
                /\ name = "get_recommendations" =>
                      summarize_tool_result(name, t.tool_result) =
                          << "Found ", "1", " recommendation", "" >>

=============================================================================
